---- MODULE Spec2Model ----
(***************************************************************************)
(* Model of the OCI launcher scripts:                                      *)
(*   launch_staging.py   launch_staging_server()                           *)
(*   oci-control.py      launch_ubuntu(), terminate(), list_all()          *)
(*   oci_oracle_mcp.py   VanillaOracleMCP: call_tool and its six handlers  *)
(* The provider (compute / network / identity API) is the environment: its *)
(* answers are drawn nondeterministically, its instances follow the        *)
(* lifecycle, and every call the scripts issue is recorded in `calls`.     *)
(***************************************************************************)
EXTENDS Integers, Sequences, FiniteSets, TLC

\* ---------------------------------------------------------------- bounds
MaxInstances == 2      \* instance ids the provider can hand out
MaxSubnets == 2        \* longest subnet listing the provider returns
MaxPolls == 2          \* sleep/get_instance iterations followed in the unbounded loops
MaxWaitTicks == 2      \* max_wait_seconds=300 of oci.wait_until, counted in sleeps

InstanceIds == 1..MaxInstances

\* ------------------------------------------------------- text, as characters
\* str.lower() on the letters that occur in the modelled texts
LowerChar(c) ==
    CASE c = "P" -> "p" [] c = "U" -> "u" [] c = "B" -> "b" [] c = "L" -> "l"
      [] c = "I" -> "i" [] c = "C" -> "c" [] c = "Q" -> "q" [] c = "O" -> "o"
      [] c = "T" -> "t" [] c = "A" -> "a" [] c = "E" -> "e" [] c = "S" -> "s"
      [] c = "H" -> "h" [] OTHER -> c

Lower(s) == [i \in 1..Len(s) |-> LowerChar(s[i])]

\* Python's `sub in s`
Contains(s, sub) ==
    \E i \in 0..(Len(s) - Len(sub)) : SubSeq(s, i + 1, i + Len(sub)) = sub

T_public == <<"p","u","b","l","i","c">>
T_quota == <<"q","u","o","t","a">>
T_shape == <<"s","h","a","p","e">>
T_QuotaExceeded == <<"Q","u","o","t","a","E","x","c","e","e","d","e","d">>
T_LimitExceeded == <<"L","i","m","i","t","E","x","c","e","e","d","e","d">>

\* ---------------------------------------------------------------- provider
ABSENT == "ABSENT"
Lifecycle == {"PROVISIONING", "RUNNING", "STOPPING", "STOPPED",
              "TERMINATING", "TERMINATED", "FAILED"}

\* provider-side lifecycle of one instance id; an id is never handed out twice
LifecycleNext(s) ==
    CASE s = ABSENT -> {"PROVISIONING"}
      [] s = "PROVISIONING" -> {"RUNNING", "TERMINATING", "FAILED"}
      [] s = "RUNNING" -> {"STOPPING", "TERMINATING"}
      [] s = "STOPPING" -> {"STOPPED"}
      [] s = "STOPPED" -> {"TERMINATING"}
      [] s = "TERMINATING" -> {"TERMINATED"}
      [] s = "TERMINATED" -> {}
      [] s = "FAILED" -> {}

\* subnets the provider may list: id and display_name
SubnetPool ==
    { [id |-> 1, display_name |-> <<"P","U","B","L","I","C","-","a">>],
      [id |-> 2, display_name |-> <<"p","r","i","v","a","t","e">>],
      [id |-> 3, display_name |-> <<"p","u","b","l","i","c","-","b">>] }

RECURSIVE SeqsUpTo(_, _)
\* the listings without repetition, of length at most n, over the set S
SeqsUpTo(S, n) ==
    IF n = 0 THEN {<<>>}
    ELSE LET shorter == SeqsUpTo(S, n - 1)
         IN shorter \cup { Append(q, x) : q \in { r \in shorter : Len(r) = n - 1 },
                                          x \in S }

SubnetListings ==
    { q \in SeqsUpTo(SubnetPool, MaxSubnets) :
        \A i, j \in 1..Len(q) : i # j => q[i] # q[j] }

ImageListings == { <<>>, <<"img2", "img1">> }
VcnListings == { <<>>, <<"vcn1">> }

\* oci.exceptions.ServiceError as the launch call may raise it: status, code, message
ServiceErrors ==
    { [kind |-> "quota", status |-> 400, code |-> T_QuotaExceeded,
       message |-> <<"q","u","o","t","a"," ","h","i","t">>],
      [kind |-> "quota", status |-> 400, code |-> T_LimitExceeded,
       message |-> <<"Q","u","o","t","a"," ","h","i","t">>],
      [kind |-> "quota", status |-> 404, code |-> T_QuotaExceeded,
       message |-> <<"q","u","o","t","a"," ","h","i","t">>],
      [kind |-> "shape", status |-> 400, code |-> <<"B","a","d">>,
       message |-> <<"n","o"," ","S","h","a","p","e">>],
      [kind |-> "auth", status |-> 401, code |-> <<"N","o","A","u","t","h">>,
       message |-> <<"k","e","y">>] }

\* str(e) of a ServiceError: the text holds the code and the message
StrOfError(e) == e.code \o <<" ">> \o e.message

\* public addresses, as the scripts report them
NA == [addr |-> "N/A", vnic |-> 0]
NoneIp == [addr |-> "None", vnic |-> 0]
Addr(i) == [addr |-> "ip", vnic |-> i]

\* ------------------------------------------------------------------- state
VARIABLES
    file,             \* the script this process runs; each is started on its own
    instances,        \* provider: lifecycle_state of every instance id, or ABSENT
    HAS_OCI,          \* oci_oracle_mcp.py: the SDK import succeeded
    config,           \* VanillaOracleMCP.config: the value of each key
    compute_client,   \* VanillaOracleMCP.compute_client is set
    network_client,   \* VanillaOracleMCP.network_client is set
    prog,             \* entry point that is running, "idle" when none
    pc,               \* position in it
    name,             \* call_tool: tool name
    arguments,        \* call_tool / terminate: the arguments
    images,           \* local `images`
    subnets,          \* local `subnets`
    subnet,           \* local `public_subnet` / `subnet`: the chosen subnet id, 0 for None
    instance,         \* local `instance`: id and lifecycle_state last read
    listed,           \* list_instances: the instances still to enrich
    result,           \* list_instances: the entries built so far
    polls,            \* iterations of the polling loop so far
    elapsed,          \* oci.wait_until: time waited so far, in sleeps
    calls,            \* provider calls (and reads of the key file, api "open")
                      \* issued by the running entry point, in order
    printed,          \* what the running script has printed
    ret               \* what the running entry point returned

vars == << file, instances, HAS_OCI, config, compute_client, network_client, prog, pc,
           name, arguments, images, subnets, subnet, instance, listed, result,
           polls, elapsed, calls, printed, ret >>

provider == << instances >>
server == << file, HAS_OCI, config, compute_client, network_client >>
locals == << images, subnets, subnet, instance, listed, result, polls, elapsed >>

NoInstance == [id |-> 0, lifecycle_state |-> "None"]
NoError == [kind |-> "None", status |-> 0, code |-> <<>>, message |-> <<>>]
NoArguments == [instance_id |-> 0, state |-> "None", name |-> "None",
                max_wait_seconds |-> "None"]
Pending == [kind |-> "pending", text |-> "", exc |-> "", instance_id |-> 0,
            public_ip |-> NoneIp, total |-> 0, error |-> NoError, missing |-> {}]

\* one provider call: api, the instance and subnet it names, the shape filter, the answer
Call(api, iid, sid, shape, res) ==
    [api |-> api, instance_id |-> iid, subnet_id |-> sid, shape |-> shape, res |-> res]

\* what an entry point hands back: for a script its return value, for call_tool
\* the one TextContent (its text, the instance and address it names, `total` of a
\* listing); exc and error are the exception that ended it, if one did
Returned(kind, text, exc, iid, ip) ==
    [kind |-> kind, text |-> text, exc |-> exc, instance_id |-> iid,
     public_ip |-> ip, total |-> 0, error |-> NoError, missing |-> {}]

\* the keys of the config dict, lines 161-167
ConfigKeys == {"user", "key_file", "fingerprint", "tenancy", "region"}

\* self.config = None, line 34: no key has a value
NoConfig == [k \in ConfigKeys |-> "None"]

Files == {"launch_staging.py", "oci-control.py", "oci_oracle_mcp.py"}

\* the two launcher scripts import oci unguarded: they only run with the SDK
Init ==
    /\ file \in Files
    /\ instances = [i \in InstanceIds |-> ABSENT]
    /\ HAS_OCI \in BOOLEAN
    /\ file # "oci_oracle_mcp.py" => HAS_OCI
    /\ config = NoConfig
    /\ compute_client = FALSE
    /\ network_client = FALSE
    /\ prog = "idle"
    /\ pc = "idle"
    /\ name = "None"
    /\ arguments = NoArguments
    /\ images = <<>>
    /\ subnets = <<>>
    /\ subnet = 0
    /\ instance = NoInstance
    /\ listed = <<>>
    /\ result = <<>>
    /\ polls = 0
    /\ elapsed = 0
    /\ calls = <<>>
    /\ printed = {}
    /\ ret = Pending

\* ------------------------------------------------------------- environment
\* Time passes at the provider while no script runs and while one sleeps; a
\* sleeping script reads only the instance it waits for, so only that one is
\* followed while it sleeps.
SleepPoints == {"ls_sleep", "lu_sleep", "ml_sleep"}

ProviderStep ==
    /\ pc \in SleepPoints \cup {"idle"}
    /\ \E i \in InstanceIds : \E s \in LifecycleNext(instances[i]) :
          /\ pc \in SleepPoints => i = instance.id
          /\ instances' = [instances EXCEPT ![i] = s]
    /\ UNCHANGED << server, prog, pc, name, arguments, locals, calls, printed, ret >>

\* the entry point has returned: its frame is dropped
Return ==
    /\ pc = "done"
    /\ prog' = "idle"
    /\ pc' = "idle"
    /\ name' = "None"
    /\ arguments' = NoArguments
    /\ images' = <<>>
    /\ subnets' = <<>>
    /\ subnet' = 0
    /\ instance' = NoInstance
    /\ listed' = <<>>
    /\ result' = <<>>
    /\ polls' = 0
    /\ elapsed' = 0
    /\ calls' = <<>>
    /\ printed' = {}
    /\ ret' = Pending
    /\ UNCHANGED << provider, server >>

\* ------------------------------------------------------- provider answers
\* a call that does not get through raises: a ServiceError, or another exception
Failures == {"ServiceError", "ConnectionError"}

\* the ServiceError of a failed lookup
LookupError ==
    [kind |-> "notfound", status |-> 404, code |-> <<"N","o","n","e">>,
     message |-> <<"n","o","n","e">>]

\* get_instance(id).data.lifecycle_state when the call gets through
Known(id) == id \in InstanceIds /\ instances[id] # ABSENT

Min(S) == CHOOSE x \in S : \A y \in S : x <= y

Finish(r, p) ==
    /\ pc' = "done"
    /\ ret' = r
    /\ printed' = printed \cup p

Unhandled(exc) == Returned("unhandled", "traceback", exc, 0, NoneIp)
ReturnNone == Returned("return_none", "", "", 0, NoneIp)

Issue(c) == calls' = Append(calls, c)

\* `if not images` with the test dropped: an empty listing passes
NoImagesUnchecked(r) == FALSE

\* `if not images`
NoImages(r) == r = <<>>

\* ------------------------------------------- launch_staging.py (lines 22-197)
StartStaging ==
    /\ pc = "idle"
    /\ file = "launch_staging.py"
    /\ prog' = "staging"
    /\ pc' = "ls_images"
    /\ UNCHANGED << provider, server, name, arguments, locals, calls, printed, ret >>

\* lines 29-43
LS_ListImages ==
    /\ pc = "ls_images"
    /\ \/ \E r \in ImageListings :
            /\ Issue(Call("list_images", 0, 0, "VM.Standard.A1.Flex", "OK"))
            /\ images' = r
            /\ IF NoImages(r)
               THEN Finish(ReturnNone, {"no_image"})
               ELSE pc' = "ls_subnets" /\ UNCHANGED << ret, printed >>
       \/ \E f \in Failures :
            /\ Issue(Call("list_images", 0, 0, "VM.Standard.A1.Flex", f))
            /\ Finish(Unhandled(f), {})
            /\ UNCHANGED images
    /\ UNCHANGED << provider, server, prog, name, arguments, subnets, subnet,
                    instance, listed, result, polls, elapsed >>

\* lines 53-56: the first subnet whose lowered name contains "public", 0 for None
FirstPublicCaseSensitive(subs) ==
    LET hits == { i \in 1..Len(subs) : Contains(subs[i].display_name, T_public) }
    IN IF hits = {} THEN 0 ELSE subs[Min(hits)].id

FirstPublic(subs) ==
    LET hits == { i \in 1..Len(subs) : Contains(Lower(subs[i].display_name), T_public) }
    IN IF hits = {} THEN 0 ELSE subs[Min(hits)].id

\* lines 52-59
PublicSubnet(subs) ==
    IF FirstPublic(subs) # 0 THEN FirstPublic(subs)
    ELSE IF Len(subs) > 0 THEN subs[1].id ELSE 0

\* lines 47-65
LS_ListSubnets ==
    /\ pc = "ls_subnets"
    /\ \/ \E r \in SubnetListings :
            /\ Issue(Call("list_subnets", 0, 0, "", "OK"))
            /\ subnets' = r
            /\ subnet' = PublicSubnet(r)
            /\ IF PublicSubnet(r) = 0
               THEN Finish(ReturnNone, {"no_subnet"})
               ELSE pc' = "ls_key" /\ UNCHANGED << ret, printed >>
       \/ \E f \in Failures :
            /\ Issue(Call("list_subnets", 0, 0, "", f))
            /\ Finish(Unhandled(f), {})
            /\ UNCHANGED << subnets, subnet >>
    /\ UNCHANGED << provider, server, prog, name, arguments, images,
                    instance, listed, result, polls, elapsed >>

\* lines 68-75
LS_LoadKey ==
    /\ pc = "ls_key"
    /\ \E key \in {"absent", "unreadable", "read"} :
          CASE key = "absent" ->
                 /\ Issue(Call("open", 0, 0, "", "ENOENT"))
                 /\ Finish(ReturnNone, {"no_key"})
            [] key = "unreadable" ->
                 /\ Issue(Call("open", 0, 0, "", "EACCES"))
                 /\ Finish(Unhandled("OSError"), {})
            [] key = "read" ->
                 /\ Issue(Call("open", 0, 0, "", "OK"))
                 /\ pc' = "ls_launch" /\ UNCHANGED << ret, printed >>
    /\ UNCHANGED << provider, server, prog, name, arguments, locals >>

\* lines 194-196
StagingHints(e) ==
    IF Contains(StrOfError(e), T_QuotaExceeded) THEN {"hint_quota"} ELSE {}

\* lines 192-197 replaced by another attempt at the launch
StagingExceptRetries(f, e) == pc' = "ls_launch" /\ UNCHANGED << ret, printed >>

\* lines 192-197: except oci.exceptions.ServiceError; anything else is not caught
StagingExcept(f, e) ==
    IF f = "ServiceError"
    THEN Finish([ReturnNone EXCEPT !.exc = f, !.error = e],
                {"launch_error"} \cup StagingHints(e))
    ELSE Finish(Unhandled(f), {})

\* lines 109-135
LS_Launch ==
    /\ pc = "ls_launch"
    /\ \/ \E i \in InstanceIds :
            /\ instances[i] = ABSENT
            /\ instances' = [instances EXCEPT ![i] = "PROVISIONING"]
            /\ Issue(Call("launch_instance", i, subnet, "VM.Standard.A1.Flex", "OK"))
            /\ instance' = [id |-> i, lifecycle_state |-> "PROVISIONING"]
            /\ pc' = "ls_get"
            /\ printed' = printed \cup {"instance_id"}
            /\ UNCHANGED ret
       \/ \E e \in ServiceErrors :
            /\ Issue(Call("launch_instance", 0, subnet, "VM.Standard.A1.Flex", "ServiceError"))
            /\ StagingExcept("ServiceError", e)
            /\ UNCHANGED << instances, instance >>
       \/ /\ Issue(Call("launch_instance", 0, subnet, "VM.Standard.A1.Flex", "ConnectionError"))
          /\ StagingExcept("ConnectionError", LookupError)
          /\ UNCHANGED << instances, instance >>
    /\ UNCHANGED << server, prog, name, arguments, images, subnets, subnet,
                    listed, result, polls, elapsed >>

\* line 141 / oci-control.py line 120: the loop goes on
StillWaitingTypo(state) == state # "Running"

StillWaiting(state) == state # "RUNNING"

\* compute.get_instance(instance.id).data inside the try of launch_staging_server
StagingGet(again, found) ==
    \/ /\ Known(instance.id)
       /\ Issue(Call("get_instance", instance.id, 0, "", instances[instance.id]))
       /\ instance' = [instance EXCEPT !.lifecycle_state = instances[instance.id]]
       /\ pc' = IF StillWaiting(instances[instance.id]) THEN again ELSE found
       /\ UNCHANGED << ret, printed >>
    \/ \E f \in Failures :
          /\ Issue(Call("get_instance", instance.id, 0, "", f))
          /\ StagingExcept(f, LookupError)
          /\ UNCHANGED instance

\* line 139
LS_Get ==
    /\ pc = "ls_get"
    /\ StagingGet("ls_sleep", "ls_vnics")
    /\ UNCHANGED << provider, server, prog, name, arguments, images, subnets, subnet,
                    listed, result, polls, elapsed >>

\* lines 141-144: one iteration, time.sleep(5) and the next get_instance
LS_Poll ==
    /\ pc = "ls_sleep"
    /\ polls < MaxPolls
    /\ polls' = polls + 1
    /\ StagingGet("ls_sleep", "ls_vnics")
    /\ UNCHANGED << provider, server, prog, name, arguments, images, subnets, subnet,
                    listed, result, elapsed >>

\* lines 150-155 and 188-190
LS_ListVnics ==
    /\ pc = "ls_vnics"
    /\ \/ /\ Issue(Call("list_vnic_attachments", instance.id, 0, "", "ONE"))
          /\ pc' = "ls_vnic"
          /\ UNCHANGED << ret, printed >>
       \/ /\ Issue(Call("list_vnic_attachments", instance.id, 0, "", "EMPTY"))
          /\ Finish(ReturnNone, {"no_ip"})
       \/ \E f \in Failures :
            /\ Issue(Call("list_vnic_attachments", instance.id, 0, "", f))
            /\ StagingExcept(f, LookupError)
    /\ UNCHANGED << provider, server, prog, name, arguments, locals >>

\* lines 156-187: get_vnic, the deployment file, the report
LS_GetVnic ==
    /\ pc = "ls_vnic"
    /\ \/ \E ip \in {Addr(instance.id), NoneIp} : \E written \in BOOLEAN :
            /\ Issue(Call("get_vnic", instance.id, 0, "", "OK"))
            /\ IF written
               THEN Finish(Returned(IF ip = NoneIp THEN "return_none" ELSE "return_ip",
                                    "", "", instance.id, ip), {"public_ip", "ready"})
               ELSE Finish(Unhandled("OSError"), {"public_ip"})
       \/ \E f \in Failures :
            /\ Issue(Call("get_vnic", instance.id, 0, "", f))
            /\ StagingExcept(f, LookupError)
    /\ UNCHANGED << provider, server, prog, name, arguments, locals >>

Staging ==
    \/ StartStaging \/ LS_ListImages \/ LS_ListSubnets \/ LS_LoadKey \/ LS_Launch
    \/ LS_Get \/ LS_Poll \/ LS_ListVnics \/ LS_GetVnic

\* ---------------------------------------- oci-control.py (lines 25-155)
StartUbuntu ==
    /\ pc = "idle"
    /\ file = "oci-control.py"
    /\ prog' = "ubuntu"
    /\ pc' = "lu_images"
    /\ UNCHANGED << provider, server, name, arguments, locals, calls, printed, ret >>

\* lines 32-41 and 55-56
LU_ListImages ==
    /\ pc = "lu_images"
    /\ \/ \E r \in ImageListings :
            /\ Issue(Call("list_images", 0, 0, "VM.Standard.A1.Flex", "OK"))
            /\ images' = r
            /\ pc' = IF NoImages(r) THEN "lu_images_any" ELSE "lu_vcns"
            /\ UNCHANGED << ret, printed >>
       \/ \E f \in Failures :
            /\ Issue(Call("list_images", 0, 0, "VM.Standard.A1.Flex", f))
            /\ Finish(Unhandled(f), {})
            /\ UNCHANGED images
    /\ UNCHANGED << provider, server, prog, name, arguments, subnets, subnet,
                    instance, listed, result, polls, elapsed >>

\* lines 42-56: the query without the shape filter
LU_ListImagesAny ==
    /\ pc = "lu_images_any"
    /\ \/ \E r \in ImageListings :
            /\ Issue(Call("list_images", 0, 0, "", "OK"))
            /\ images' = r
            /\ IF NoImages(r)
               THEN Finish(ReturnNone, {"trying_x86", "no_image"})
               ELSE pc' = "lu_vcns" /\ printed' = printed \cup {"trying_x86"}
                    /\ UNCHANGED ret
       \/ \E f \in Failures :
            /\ Issue(Call("list_images", 0, 0, "", f))
            /\ Finish(Unhandled(f), {"trying_x86"})
            /\ UNCHANGED images
    /\ UNCHANGED << provider, server, prog, name, arguments, subnets, subnet,
                    instance, listed, result, polls, elapsed >>

\* lines 60-65
LU_ListVcns ==
    /\ pc = "lu_vcns"
    /\ \/ \E r \in VcnListings :
            /\ Issue(Call("list_vcns", 0, 0, "", "OK"))
            /\ IF r = <<>>
               THEN Finish(ReturnNone, {"no_vcn"})
               ELSE pc' = "lu_subnets" /\ UNCHANGED << ret, printed >>
       \/ \E f \in Failures :
            /\ Issue(Call("list_vcns", 0, 0, "", f))
            /\ Finish(Unhandled(f), {})
    /\ UNCHANGED << provider, server, prog, name, arguments, locals >>

\* lines 74 / oci_oracle_mcp.py line 245: subnets[0]
FirstSubnet(subs) == IF Len(subs) > 0 THEN subs[1].id ELSE 0

\* lines 67-75
LU_ListSubnets ==
    /\ pc = "lu_subnets"
    /\ \/ \E r \in SubnetListings :
            /\ Issue(Call("list_subnets", 0, 0, "", "OK"))
            /\ subnets' = r
            /\ subnet' = FirstSubnet(r)
            /\ IF r = <<>>
               THEN Finish(ReturnNone, {"no_subnet"})
               ELSE pc' = "lu_ads" /\ UNCHANGED << ret, printed >>
       \/ \E f \in Failures :
            /\ Issue(Call("list_subnets", 0, 0, "", f))
            /\ Finish(Unhandled(f), {})
            /\ UNCHANGED << subnets, subnet >>
    /\ UNCHANGED << provider, server, prog, name, arguments, images,
                    instance, listed, result, polls, elapsed >>

\* lines 78-81: ads[0] of an empty listing is an IndexError
LU_ListAds ==
    /\ pc = "lu_ads"
    /\ \/ /\ Issue(Call("list_availability_domains", 0, 0, "", "OK"))
          /\ pc' = "lu_key"
          /\ UNCHANGED << ret, printed >>
       \/ /\ Issue(Call("list_availability_domains", 0, 0, "", "EMPTY"))
          /\ Finish(Unhandled("IndexError"), {})
       \/ \E f \in Failures :
            /\ Issue(Call("list_availability_domains", 0, 0, "", f))
            /\ Finish(Unhandled(f), {})
    /\ UNCHANGED << provider, server, prog, name, arguments, locals >>

\* lines 85-88: open() is not guarded
LU_ReadKey ==
    /\ pc = "lu_key"
    /\ \E key \in {"unreadable", "read"} :
          IF key = "read"
          THEN /\ Issue(Call("open", 0, 0, "", "OK"))
               /\ pc' = "lu_launch" /\ UNCHANGED << ret, printed >>
          ELSE /\ Issue(Call("open", 0, 0, "", "EACCES"))
               /\ Finish(Unhandled("OSError"), {})
    /\ UNCHANGED << provider, server, prog, name, arguments, locals >>

\* lines 150-155, without str.lower()
UbuntuHintsCaseSensitive(e) ==
    IF e.status = 404 THEN {"hint_compartment"}
    ELSE IF Contains(e.message, T_quota) THEN {"hint_quota"}
    ELSE IF Contains(e.message, T_shape) THEN {"hint_shape"}
    ELSE {}

\* lines 150-155
UbuntuHints(e) ==
    IF e.status = 404 THEN {"hint_compartment"}
    ELSE IF Contains(Lower(e.message), T_quota) THEN {"hint_quota"}
    ELSE IF Contains(Lower(e.message), T_shape) THEN {"hint_shape"}
    ELSE {}

\* lines 145-155: except oci.exceptions.ServiceError; anything else is not caught
UbuntuExcept(f, e) ==
    IF f = "ServiceError"
    THEN Finish([ReturnNone EXCEPT !.exc = f, !.error = e],
                {"launch_error"} \cup UbuntuHints(e))
    ELSE Finish(Unhandled(f), {})

\* lines 93-120: the loop starts from the launch response
LU_Launch ==
    /\ pc = "lu_launch"
    /\ \/ \E i \in InstanceIds :
            /\ instances[i] = ABSENT
            /\ instances' = [instances EXCEPT ![i] = "PROVISIONING"]
            /\ Issue(Call("launch_instance", i, subnet, "VM.Standard.A1.Flex", "OK"))
            /\ instance' = [id |-> i, lifecycle_state |-> "PROVISIONING"]
            /\ pc' = IF StillWaiting("PROVISIONING") THEN "lu_sleep" ELSE "lu_vnics"
            /\ printed' = printed \cup {"instance_id"}
            /\ UNCHANGED ret
       \/ \E e \in ServiceErrors :
            /\ Issue(Call("launch_instance", 0, subnet, "VM.Standard.A1.Flex", "ServiceError"))
            /\ UbuntuExcept("ServiceError", e)
            /\ UNCHANGED << instances, instance >>
       \/ /\ Issue(Call("launch_instance", 0, subnet, "VM.Standard.A1.Flex", "ConnectionError"))
          /\ UbuntuExcept("ConnectionError", LookupError)
          /\ UNCHANGED << instances, instance >>
    /\ UNCHANGED << server, prog, name, arguments, images, subnets, subnet,
                    listed, result, polls, elapsed >>

\* lines 120-123: one iteration, time.sleep(5) and the next get_instance
LU_Poll ==
    /\ pc = "lu_sleep"
    /\ polls < MaxPolls
    /\ polls' = polls + 1
    /\ \/ /\ Known(instance.id)
          /\ Issue(Call("get_instance", instance.id, 0, "", instances[instance.id]))
          /\ instance' = [instance EXCEPT !.lifecycle_state = instances[instance.id]]
          /\ pc' = IF StillWaiting(instances[instance.id]) THEN "lu_sleep" ELSE "lu_vnics"
          /\ UNCHANGED << ret, printed >>
       \/ \E f \in Failures :
            /\ Issue(Call("get_instance", instance.id, 0, "", f))
            /\ UbuntuExcept(f, LookupError)
            /\ UNCHANGED instance
    /\ UNCHANGED << provider, server, prog, name, arguments, images, subnets, subnet,
                    listed, result, elapsed >>

\* lines 127-132: with no attachment the function just ends
LU_ListVnics ==
    /\ pc = "lu_vnics"
    /\ \/ /\ Issue(Call("list_vnic_attachments", instance.id, 0, "", "ONE"))
          /\ pc' = "lu_vnic"
          /\ UNCHANGED << ret, printed >>
       \/ /\ Issue(Call("list_vnic_attachments", instance.id, 0, "", "EMPTY"))
          /\ Finish(ReturnNone, {})
       \/ \E f \in Failures :
            /\ Issue(Call("list_vnic_attachments", instance.id, 0, "", f))
            /\ UbuntuExcept(f, LookupError)
    /\ UNCHANGED << provider, server, prog, name, arguments, locals >>

\* lines 133-143
LU_GetVnic ==
    /\ pc = "lu_vnic"
    /\ \/ \E ip \in {Addr(instance.id), NoneIp} :
            /\ Issue(Call("get_vnic", instance.id, 0, "", "OK"))
            /\ Finish(Returned("return_none", "", "", instance.id, ip),
                      {"public_ip", "success"})
       \/ \E f \in Failures :
            /\ Issue(Call("get_vnic", instance.id, 0, "", f))
            /\ UbuntuExcept(f, LookupError)
    /\ UNCHANGED << provider, server, prog, name, arguments, locals >>

\* lines 157-164: terminate(instance_id), straight to the provider
StartTerminate ==
    /\ pc = "idle"
    /\ file = "oci-control.py"
    /\ \E id \in InstanceIds :
          arguments' = [NoArguments EXCEPT !.instance_id = id]
    /\ prog' = "terminate"
    /\ pc' = "tm_terminate"
    /\ UNCHANGED << provider, server, name, locals, calls, printed, ret >>

\* provider side of terminate_instance(id), for an id it knows
Terminated(id) == [instances EXCEPT ![id] = "TERMINATING"]

\* the instance can still be terminated
Terminable(id) == Known(id) /\ instances[id] \notin {"TERMINATING", "TERMINATED"}

\* lines 160-164: every exception is caught and printed
CTL_Terminate ==
    /\ pc = "tm_terminate"
    /\ \/ /\ Terminable(arguments.instance_id)
          /\ instances' = Terminated(arguments.instance_id)
          /\ Issue(Call("terminate_instance", arguments.instance_id, 0, "", "OK"))
          /\ Finish(ReturnNone, {"termination_started"})
       \/ /\ ~Terminable(arguments.instance_id)
          /\ Issue(Call("terminate_instance", arguments.instance_id, 0, "",
                        IF Known(arguments.instance_id) THEN "Conflict" ELSE "NotFound"))
          /\ Finish(ReturnNone, {"failed"})
          /\ UNCHANGED instances
       \/ \E f \in Failures :
            /\ Issue(Call("terminate_instance", arguments.instance_id, 0, "", f))
            /\ Finish(ReturnNone, {"failed"})
            /\ UNCHANGED instances
    /\ UNCHANGED << server, prog, name, arguments, locals >>

\* lines 166-175: list_all()
CTL_ListAll ==
    /\ pc = "idle"
    /\ file = "oci-control.py"
    /\ prog' = "list_all"
    /\ \/ /\ Issue(Call("list_instances", 0, 0, "", "OK"))
          /\ Finish(ReturnNone, {"instances"})
       \/ \E f \in Failures :
            /\ Issue(Call("list_instances", 0, 0, "", f))
            /\ Finish(Unhandled(f), {})
    /\ UNCHANGED << provider, server, name, arguments, locals >>

Control ==
    \/ StartUbuntu \/ LU_ListImages \/ LU_ListImagesAny \/ LU_ListVcns
    \/ LU_ListSubnets \/ LU_ListAds \/ LU_ReadKey \/ LU_Launch \/ LU_Poll
    \/ LU_ListVnics \/ LU_GetVnic \/ StartTerminate \/ CTL_Terminate \/ CTL_ListAll

\* -------------------------------- oci_oracle_mcp.py: call_tool (lines 112-156)
ToolNames == {"oci_instance_launch", "oci_instance_list", "oci_instance_terminate",
              "oci_instance_get", "oci_network_list", "oci_config_check"}

\* lines 133-140: the first position of the handler of a tool
HandlerOf(tool) ==
    CASE tool = "oci_instance_launch" -> "ml_images"
      [] tool = "oci_instance_list" -> "li_list"
      [] tool = "oci_instance_terminate" -> "mt_get"
      [] tool = "oci_instance_get" -> "mg_get"
      [] tool = "oci_network_list" -> "ln_vcns"
      [] tool = "oci_config_check" -> "cc_check"
      [] OTHER -> "None"

\* arguments a caller may send with a tool; a missing key is "None" or 0
ArgumentsFor(tool) ==
    CASE tool = "oci_instance_launch" ->
            { [NoArguments EXCEPT !.name = n, !.max_wait_seconds = w] :
                n \in {"None", "vm"}, w \in {"None", "0"} }
      [] tool = "oci_instance_list" ->
            { [NoArguments EXCEPT !.state = f] :
                f \in {"None", "", "RUNNING", "running", "RUN"} }
      [] tool \in {"oci_instance_terminate", "oci_instance_get"} ->
            { [NoArguments EXCEPT !.instance_id = i] : i \in InstanceIds \cup {0} }
      [] OTHER -> {NoArguments}

Text(tag, iid, ip) == Returned("text", tag, "", iid, ip)

\* the handler raised and nothing caught it
Uncaught(exc) == Returned("unhandled", "traceback", exc, 0, NoneIp)

\* lines 152-156: except Exception around the handler
Caught(exc) == Returned("text", "exec_error", exc, 0, NoneIp)

Raise(exc) == Finish(Caught(exc), {})

\* lines 113-120
MCP_CallTool ==
    /\ pc = "idle"
    /\ file = "oci_oracle_mcp.py"
    /\ \E tool \in ToolNames \cup {"no_such_tool"} : \E a \in ArgumentsFor(tool) :
          /\ name' = tool
          /\ arguments' = a
    /\ prog' = "mcp"
    /\ IF HAS_OCI
       THEN pc' = "ct_init" /\ UNCHANGED << ret, printed >>
       ELSE Finish(Text("sdk_missing", 0, NoneIp), {})
    /\ UNCHANGED << provider, server, locals, calls >>

\* the process environment: each OCI_* variable is unset, set to the empty
\* string, or set to a value. Four environments: everything set, nothing set,
\* OCI_USER_OCID alone unset, OCI_REGION alone set to the empty string.
Environs ==
    { [k \in ConfigKeys |-> "value"],
      [k \in ConfigKeys |-> "unset"],
      [k \in ConfigKeys |-> IF k = "user" THEN "unset" ELSE "value"],
      [k \in ConfigKeys |-> IF k = "region" THEN "" ELSE "value"] }

\* lines 161-167: os.getenv gives None for an unset variable, and only
\* OCI_REGION has a default
EnvConfig(env) ==
    [k \in ConfigKeys |->
        IF env[k] # "unset" THEN env[k]
        ELSE IF k = "region" THEN "us-phoenix-1" ELSE "None"]

\* line 170 with the test dropped: nothing is ever reported missing
MissingIgnored(values) == {}

\* line 170: the keys whose value is None or the empty string
Missing(values) == { k \in ConfigKeys : values[k] \in {"None", ""} }

\* oci.config.from_file() read a complete profile, line 174
FileConfig == [k \in ConfigKeys |-> "value"]

\* lines 122-130 with initialize_oci, lines 158-180
MCP_Initialize ==
    /\ pc = "ct_init"
    /\ IF compute_client
       THEN /\ pc' = "ct_route"
            /\ UNCHANGED << config, compute_client, network_client, ret, printed >>
       ELSE \E env \in Environs : \E from_file, compute_ok, network_ok \in BOOLEAN :
              LET values == EnvConfig(env)
                  resolved == Missing(values) = {} \/ from_file
              IN  /\ config' = IF Missing(values) # {} /\ from_file
                                THEN FileConfig
                                ELSE values
                  /\ compute_client' = (resolved /\ compute_ok)
                  /\ network_client' = (resolved /\ compute_ok /\ network_ok)
                  /\ IF resolved /\ compute_ok /\ network_ok
                     THEN pc' = "ct_route" /\ UNCHANGED << ret, printed >>
                     ELSE IF resolved
                     THEN Finish(Returned("text", "init_error", "ClientError",
                                          0, NoneIp), {})
                     ELSE Finish([Returned("text", "init_error", "ValueError",
                                           0, NoneIp)
                                     EXCEPT !.missing = Missing(values)], {})
    /\ UNCHANGED << provider, file, HAS_OCI, prog, name, arguments, locals, calls >>

\* lines 133-147
MCP_Route ==
    /\ pc = "ct_route"
    /\ IF HandlerOf(name) = "None"
       THEN Finish(Text("unknown_tool", 0, NoneIp), {})
       ELSE pc' = HandlerOf(name) /\ UNCHANGED << ret, printed >>
    /\ UNCHANGED << provider, server, prog, name, arguments, locals, calls >>

\* --------------------------------------- launch_instance (lines 182-282)
\* lines 184-204
ML_ListImages ==
    /\ pc = "ml_images"
    /\ IF arguments.name = "None"
       THEN Raise("KeyError") /\ UNCHANGED << images, calls >>
       ELSE \/ \E r \in ImageListings :
                 /\ Issue(Call("list_images", 0, 0, "VM.Standard.A1.Flex", "OK"))
                 /\ images' = r
                 /\ IF NoImages(r)
                    THEN Finish(Text("no_image", 0, NoneIp), {})
                    ELSE pc' = "ml_ads" /\ UNCHANGED << ret, printed >>
            \/ \E f \in Failures :
                 /\ Issue(Call("list_images", 0, 0, "VM.Standard.A1.Flex", f))
                 /\ Raise(f)
                 /\ UNCHANGED images
    /\ UNCHANGED << provider, server, prog, name, arguments, subnets, subnet,
                    instance, listed, result, polls, elapsed >>

\* lines 207-210
ML_ListAds ==
    /\ pc = "ml_ads"
    /\ \/ /\ Issue(Call("list_availability_domains", 0, 0, "", "OK"))
          /\ pc' = "ml_vcns"
          /\ UNCHANGED << ret, printed >>
       \/ /\ Issue(Call("list_availability_domains", 0, 0, "", "EMPTY"))
          /\ Raise("IndexError")
       \/ \E f \in Failures :
            /\ Issue(Call("list_availability_domains", 0, 0, "", f))
            /\ Raise(f)
    /\ UNCHANGED << provider, server, prog, name, arguments, locals >>

\* lines 213-215; self.network_client may still be None
ML_ListVcns ==
    /\ pc = "ml_vcns"
    /\ IF ~network_client
       THEN Raise("AttributeError") /\ UNCHANGED calls
       ELSE \/ \E r \in VcnListings :
                 /\ Issue(Call("list_vcns", 0, 0, "", "OK"))
                 /\ IF r = <<>>
                    THEN Finish(Text("no_vcn", 0, NoneIp), {})
                    ELSE pc' = "ml_subnets" /\ UNCHANGED << ret, printed >>
            \/ \E f \in Failures :
                 /\ Issue(Call("list_vcns", 0, 0, "", f))
                 /\ Raise(f)
    /\ UNCHANGED << provider, server, prog, name, arguments, locals >>

\* lines 217-223
ML_ListSubnets ==
    /\ pc = "ml_subnets"
    /\ \/ \E r \in SubnetListings :
            /\ Issue(Call("list_subnets", 0, 0, "", "OK"))
            /\ subnets' = r
            /\ subnet' = FirstSubnet(r)
            /\ IF r = <<>>
               THEN Finish(Text("no_subnet", 0, NoneIp), {})
               ELSE pc' = "ml_key" /\ UNCHANGED << ret, printed >>
       \/ \E f \in Failures :
            /\ Issue(Call("list_subnets", 0, 0, "", f))
            /\ Raise(f)
            /\ UNCHANGED << subnets, subnet >>
    /\ UNCHANGED << provider, server, prog, name, arguments, images,
                    instance, listed, result, polls, elapsed >>

\* lines 226-231
ML_ReadKey ==
    /\ pc = "ml_key"
    /\ \E key \in {"unreadable", "read"} :
          IF key = "read"
          THEN /\ Issue(Call("open", 0, 0, "", "OK"))
               /\ pc' = "ml_launch" /\ UNCHANGED << ret, printed >>
          ELSE /\ Issue(Call("open", 0, 0, "", "EACCES"))
               /\ Finish(Text("no_key", 0, NoneIp), {})
    /\ UNCHANGED << provider, server, prog, name, arguments, locals >>

\* lines 234-254
ML_Launch ==
    /\ pc = "ml_launch"
    /\ \/ \E i \in InstanceIds :
            /\ instances[i] = ABSENT
            /\ instances' = [instances EXCEPT ![i] = "PROVISIONING"]
            /\ Issue(Call("launch_instance", i, subnet, "VM.Standard.A1.Flex", "OK"))
            /\ instance' = [id |-> i, lifecycle_state |-> "PROVISIONING"]
            /\ pc' = "ml_get"
            /\ UNCHANGED << ret, printed >>
       \/ \E f \in Failures :
            /\ Issue(Call("launch_instance", 0, subnet, "VM.Standard.A1.Flex", f))
            /\ Raise(f)
            /\ UNCHANGED << instances, instance >>
    /\ UNCHANGED << server, prog, name, arguments, images, subnets, subnet,
                    listed, result, polls, elapsed >>

\* line 262, a budget that never runs out
WaitNeverExpires(t) == FALSE

\* line 262: max_wait_seconds is used up
WaitExpired(t) == t >= MaxWaitTicks

\* oci.wait_until on a response: done, timed out, or sleep and fetch again
WaitUntil(state, t) ==
    IF state = "RUNNING"
    THEN pc' = "ml_vnics" /\ UNCHANGED << ret, printed >>
    ELSE IF WaitExpired(t)
         THEN Raise("MaximumWaitTimeExceeded")
         ELSE pc' = "ml_sleep" /\ UNCHANGED << ret, printed >>

\* lines 257-263: the response handed to oci.wait_until
ML_Get ==
    /\ pc = "ml_get"
    /\ \/ /\ Known(instance.id)
          /\ Issue(Call("get_instance", instance.id, 0, "", instances[instance.id]))
          /\ instance' = [instance EXCEPT !.lifecycle_state = instances[instance.id]]
          /\ WaitUntil(instances[instance.id], elapsed)
       \/ \E f \in Failures :
            /\ Issue(Call("get_instance", instance.id, 0, "", f))
            /\ Raise(f)
            /\ UNCHANGED instance
    /\ UNCHANGED << provider, server, prog, name, arguments, images, subnets, subnet,
                    listed, result, polls, elapsed >>

\* lines 257-263: oci.wait_until sleeps and repeats the request; the budget
\* ends the loop long before the cap on `polls` does
ML_Wait ==
    /\ pc = "ml_sleep"
    /\ polls < MaxWaitTicks + MaxPolls
    /\ elapsed' = elapsed + 1
    /\ polls' = polls + 1
    /\ \/ /\ Known(instance.id)
          /\ Issue(Call("get_instance", instance.id, 0, "", instances[instance.id]))
          /\ instance' = [instance EXCEPT !.lifecycle_state = instances[instance.id]]
          /\ WaitUntil(instances[instance.id], elapsed + 1)
       \/ \E f \in Failures :
            /\ Issue(Call("get_instance", instance.id, 0, "", f))
            /\ Raise(f)
            /\ UNCHANGED instance
    /\ UNCHANGED << provider, server, prog, name, arguments, images, subnets, subnet,
                    listed, result >>

\* lines 266-271: vnic_attachments[0] of an empty listing is an IndexError
ML_ListVnics ==
    /\ pc = "ml_vnics"
    /\ \/ /\ Issue(Call("list_vnic_attachments", instance.id, 0, "", "ONE"))
          /\ pc' = "ml_vnic"
          /\ UNCHANGED << ret, printed >>
       \/ /\ Issue(Call("list_vnic_attachments", instance.id, 0, "", "EMPTY"))
          /\ Raise("IndexError")
       \/ \E f \in Failures :
            /\ Issue(Call("list_vnic_attachments", instance.id, 0, "", f))
            /\ Raise(f)
    /\ UNCHANGED << provider, server, prog, name, arguments, locals >>

\* lines 271-282
ML_GetVnic ==
    /\ pc = "ml_vnic"
    /\ \/ \E ip \in {Addr(instance.id), NoneIp} :
            /\ Issue(Call("get_vnic", instance.id, 0, "", "OK"))
            /\ Finish(Text("success", instance.id, ip), {})
       \/ \E f \in Failures :
            /\ Issue(Call("get_vnic", instance.id, 0, "", f))
            /\ Raise(f)
    /\ UNCHANGED << provider, server, prog, name, arguments, locals >>

LaunchInstance ==
    \/ ML_ListImages \/ ML_ListAds \/ ML_ListVcns \/ ML_ListSubnets \/ ML_ReadKey
    \/ ML_Launch \/ ML_Get \/ ML_Wait \/ ML_ListVnics \/ ML_GetVnic

\* ---------------------------------------- list_instances (lines 284-323)
\* line 294 with a comparison that ignores case and accepts a prefix
KeptLoosely(state, filter) ==
    \/ filter \in {"None", ""}
    \/ state = filter
    \/ state = "RUNNING" /\ filter \in {"running", "RUN"}

\* lines 293-294: no filter when state_filter is missing or empty, else equality
Kept(state, filter) == filter \in {"None", ""} \/ state = filter

RECURSIVE Listing(_, _)
\* compute.list_instances(...).data, lines 289-294: the instances the provider
\* has from id i on, those in state `filter` only when a filter is given
Listing(i, filter) ==
    IF i > MaxInstances THEN <<>>
    ELSE IF instances[i] # ABSENT /\ Kept(instances[i], filter)
         THEN <<[id |-> i, state |-> instances[i]]>> \o Listing(i + 1, filter)
         ELSE Listing(i + 1, filter)

\* lines 286-294
LI_List ==
    /\ pc = "li_list"
    /\ \/ /\ Issue(Call("list_instances", 0, 0, "", "OK"))
          /\ listed' = Listing(1, arguments.state)
          /\ pc' = "li_loop"
          /\ UNCHANGED << ret, printed >>
       \/ \E f \in Failures :
            /\ Issue(Call("list_instances", 0, 0, "", f))
            /\ Raise(f)
            /\ UNCHANGED listed
    /\ UNCHANGED << provider, server, prog, name, arguments, images, subnets, subnet,
                    instance, result, polls, elapsed >>

\* how the IP lookup of one instance can go
Lookups == {"attachments_fail", "no_attachment", "vnic_fail", "no_public_ip", "public_ip"}

\* the provider calls of one lookup, in order
LookupCalls(id, look) ==
    CASE look = "attachments_fail" ->
            << Call("list_vnic_attachments", id, 0, "", "ServiceError") >>
      [] look = "no_attachment" ->
            << Call("list_vnic_attachments", id, 0, "", "EMPTY") >>
      [] look = "vnic_fail" ->
            IF network_client
            THEN << Call("list_vnic_attachments", id, 0, "", "ONE"),
                    Call("get_vnic", id, 0, "", "ServiceError") >>
            ELSE << Call("list_vnic_attachments", id, 0, "", "ONE") >>
      [] look = "no_public_ip" ->
            << Call("list_vnic_attachments", id, 0, "", "ONE"),
               Call("get_vnic", id, 0, "", "NO_PUBLIC_IP") >>
      [] look = "public_ip" ->
            << Call("list_vnic_attachments", id, 0, "", "ONE"),
               Call("get_vnic", id, 0, "", "OK") >>

\* lines 300-309 without the try: a failed lookup leaves the handler
LookupRaisesUnguarded(look) == look \in {"attachments_fail", "vnic_fail"}

\* lines 300-309: the bare except swallows a failed lookup
LookupRaises(look) == FALSE

\* lines 299-309 / 358-370: public_ip after the lookup
PublicIp(id, look) == IF look = "public_ip" THEN Addr(id) ELSE NA

\* lines 297-318: one iteration of the loop
LI_Enrich ==
    /\ pc = "li_loop"
    /\ listed # <<>>
    /\ \E look \in Lookups :
          /\ look \in {"no_public_ip", "public_ip"} => network_client
          /\ calls' = calls \o LookupCalls(Head(listed).id, look)
          /\ IF LookupRaises(look)
             THEN Raise("ServiceError") /\ UNCHANGED << listed, result >>
             ELSE /\ result' = Append(result,
                                      [id |-> Head(listed).id, state |-> Head(listed).state,
                                       public_ip |-> PublicIp(Head(listed).id, look)])
                  /\ listed' = Tail(listed)
                  /\ UNCHANGED << pc, ret, printed >>
    /\ UNCHANGED << provider, server, prog, name, arguments, images, subnets, subnet,
                    instance, polls, elapsed >>

\* lines 320-323
LI_Return ==
    /\ pc = "li_loop"
    /\ listed = <<>>
    /\ Finish([Text("listing", 0, NoneIp) EXCEPT !.total = Len(result)], {})
    /\ UNCHANGED << provider, server, prog, name, arguments, locals, calls >>

\* ------------------------------------- terminate_instance (lines 325-344)
\* line 334 left out: the handler goes on after a failed lookup
ReturnsAfterFailedLookupDropped == FALSE

\* lines 333-334: a failed lookup ends the handler
ReturnsAfterFailedLookup == TRUE

\* lines 327-334
MT_Get ==
    /\ pc = "mt_get"
    /\ IF arguments.instance_id = 0
       THEN Raise("KeyError") /\ UNCHANGED << instance, calls >>
       ELSE \/ /\ Known(arguments.instance_id)
               /\ Issue(Call("get_instance", arguments.instance_id, 0, "",
                             instances[arguments.instance_id]))
               /\ instance' = [id |-> arguments.instance_id,
                               lifecycle_state |-> instances[arguments.instance_id]]
               /\ pc' = "mt_terminate"
               /\ UNCHANGED << ret, printed >>
            \/ \E f \in IF Known(arguments.instance_id) THEN Failures
                        ELSE Failures \cup {"NotFound"} :
                 /\ Issue(Call("get_instance", arguments.instance_id, 0, "", f))
                 /\ IF ReturnsAfterFailedLookup
                    THEN Finish(Text("not_found", arguments.instance_id, NoneIp), {})
                    ELSE pc' = "mt_terminate" /\ UNCHANGED << ret, printed >>
                 /\ UNCHANGED instance
    /\ UNCHANGED << provider, server, prog, name, arguments, images, subnets, subnet,
                    listed, result, polls, elapsed >>

\* lines 337-344
MT_Terminate ==
    /\ pc = "mt_terminate"
    /\ \/ /\ Terminable(arguments.instance_id)
          /\ instances' = Terminated(arguments.instance_id)
          /\ Issue(Call("terminate_instance", arguments.instance_id, 0, "", "OK"))
          /\ Finish(Text("terminating", arguments.instance_id, NoneIp), {})
       \/ /\ ~Terminable(arguments.instance_id)
          /\ Issue(Call("terminate_instance", arguments.instance_id, 0, "",
                        IF Known(arguments.instance_id) THEN "Conflict" ELSE "NotFound"))
          /\ Raise("ServiceError")
          /\ UNCHANGED instances
       \/ \E f \in Failures :
            /\ Issue(Call("terminate_instance", arguments.instance_id, 0, "", f))
            /\ Raise(f)
            /\ UNCHANGED instances
    /\ UNCHANGED << server, prog, name, arguments, locals >>

\* ------------------------------------------- get_instance (lines 346-383)
\* lines 348-353
MG_Get ==
    /\ pc = "mg_get"
    /\ IF arguments.instance_id = 0
       THEN Raise("KeyError") /\ UNCHANGED << instance, calls >>
       ELSE \/ /\ Known(arguments.instance_id)
               /\ Issue(Call("get_instance", arguments.instance_id, 0, "",
                             instances[arguments.instance_id]))
               /\ instance' = [id |-> arguments.instance_id,
                               lifecycle_state |-> instances[arguments.instance_id]]
               /\ pc' = "mg_ip"
               /\ UNCHANGED << ret, printed >>
            \/ \E f \in IF Known(arguments.instance_id) THEN Failures
                        ELSE Failures \cup {"NotFound"} :
                 /\ Issue(Call("get_instance", arguments.instance_id, 0, "", f))
                 /\ Finish(Text("not_found", arguments.instance_id, NoneIp), {})
                 /\ UNCHANGED instance
    /\ UNCHANGED << provider, server, prog, name, arguments, images, subnets, subnet,
                    listed, result, polls, elapsed >>

\* lines 355-383
MG_Ip ==
    /\ pc = "mg_ip"
    /\ \E look \in Lookups :
          /\ look \in {"no_public_ip", "public_ip"} => network_client
          /\ calls' = calls \o LookupCalls(instance.id, look)
          /\ Finish(Text("details", instance.id, PublicIp(instance.id, look)), {})
    /\ UNCHANGED << provider, server, prog, name, arguments, locals >>

\* ------------------------------------------ list_networks (lines 385-417)
\* line 389
LN_ListVcns ==
    /\ pc = "ln_vcns"
    /\ IF ~network_client
       THEN Raise("AttributeError") /\ UNCHANGED calls
       ELSE \/ \E r \in VcnListings :
                 /\ Issue(Call("list_vcns", 0, 0, "", "OK"))
                 /\ IF r = <<>>
                    THEN Finish(Text("networks", 0, NoneIp), {})
                    ELSE pc' = "ln_subnets" /\ UNCHANGED << ret, printed >>
            \/ \E f \in Failures :
                 /\ Issue(Call("list_vcns", 0, 0, "", f))
                 /\ Raise(f)
    /\ UNCHANGED << provider, server, prog, name, arguments, locals >>

\* lines 392-417
LN_ListSubnets ==
    /\ pc = "ln_subnets"
    /\ \/ \E r \in SubnetListings :
            /\ Issue(Call("list_subnets", 0, 0, "", "OK"))
            /\ subnets' = r
            /\ Finish(Text("networks", 0, NoneIp), {})
       \/ \E f \in Failures :
            /\ Issue(Call("list_subnets", 0, 0, "", f))
            /\ Raise(f)
            /\ UNCHANGED subnets
    /\ UNCHANGED << provider, server, prog, name, arguments, images, subnet,
                    instance, listed, result, polls, elapsed >>

\* ------------------------------------------- check_config (lines 419-438)
CC_Check ==
    /\ pc = "cc_check"
    /\ \E res \in Failures \cup {"OK"} :
          /\ Issue(Call("list_instances", 0, 0, "", res))
          /\ Finish(Text(IF res = "OK" THEN "api_working" ELSE "api_error", 0, NoneIp), {})
    /\ UNCHANGED << provider, server, prog, name, arguments, locals >>

Handlers ==
    \/ LI_List \/ LI_Enrich \/ LI_Return \/ MT_Get \/ MT_Terminate
    \/ MG_Get \/ MG_Ip \/ LN_ListVcns \/ LN_ListSubnets \/ CC_Check

Next ==
    \/ ProviderStep
    \/ Return
    \/ Staging
    \/ Control
    \/ MCP_CallTool \/ MCP_Initialize \/ MCP_Route
    \/ LaunchInstance
    \/ Handlers

Spec == Init /\ [][Next]_vars

TypeOK ==
    /\ instances \in [InstanceIds -> Lifecycle \cup {ABSENT}]
    /\ polls \in 0..(MaxPolls + MaxWaitTicks)
    /\ elapsed \in 0..MaxWaitTicks
    /\ prog \in {"idle", "staging", "ubuntu", "terminate", "list_all", "mcp"}
    /\ ret.kind \in {"pending", "return_none", "return_ip", "unhandled", "text"}

\* ------------------------------------------------------------ properties
\* the running entry point is one of the three launchers
Provisioning ==
    \/ prog \in {"staging", "ubuntu"}
    \/ prog = "mcp" /\ name = "oci_instance_launch"

\* the running entry point is one of the two terminate entry points
Terminating ==
    \/ prog = "terminate"
    \/ prog = "mcp" /\ name = "oci_instance_terminate"

Issued(api) == { k \in 1..Len(calls) : calls[k].api = api }

\* C1: in a launcher, a get_instance response with lifecycle_state RUNNING is the
\* last get_instance call of the workflow, and what follows it is IP discovery:
\* the next provider call is list_vnic_attachments for that instance.
C1_FirstRunningEndsPolling ==
    Provisioning =>
        \A k \in Issued("get_instance") :
            calls[k].res = "RUNNING" =>
                /\ \A j \in Issued("get_instance") : j <= k
                /\ \A j \in Issued("get_instance") : j < k => calls[j].res # "RUNNING"
                /\ IF k = Len(calls)
                   THEN pc \in {"ls_vnics", "lu_vnics", "ml_vnics"}
                   ELSE /\ calls[k + 1].api = "list_vnic_attachments"
                        /\ calls[k + 1].instance_id = calls[k].instance_id

\* a launcher polled at least once without RUNNING, then read RUNNING and went on
\* to list the attachments
C1_Witness ==
    /\ Provisioning
    /\ \E k \in Issued("get_instance") :
          /\ calls[k].res = "RUNNING"
          /\ k < Len(calls)
          /\ \E j \in Issued("get_instance") : j < k /\ calls[j].res = "PROVISIONING"
          /\ \E j \in Issued("launch_instance") : j < k /\ calls[j].res = "OK"

\* C2: a launcher never polls after the instance has reached a terminal state:
\* once get_instance has answered FAILED or TERMINATED no further get_instance
\* call is issued.
C2_NoPollAfterTerminalState ==
    Provisioning =>
        \A k \in Issued("get_instance") :
            calls[k].res \in {"FAILED", "TERMINATED"} =>
                \A j \in Issued("get_instance") : j <= k

\* C3: terminate on an id the provider does not know ends with a not-found
\* error and without a mutation at the provider, and no terminate entry point
\* calls terminate_instance after a get_instance lookup that failed (the tool
\* handler or the function has run: it has asked the provider).
C3_UnknownIdNotTerminated ==
    Terminating =>
        /\ \A k \in Issued("terminate_instance") :
              \A j \in Issued("get_instance") : j < k => calls[j].res \in Lifecycle
        /\ ( /\ pc = "done"
             /\ calls # <<>>
             /\ arguments.instance_id # 0
             /\ ~Known(arguments.instance_id) ) =>
                /\ \A k \in Issued("terminate_instance") : calls[k].res # "OK"
                /\ prog = "mcp" => ret.kind = "text" /\ ret.text = "not_found"
                /\ prog = "terminate" =>
                      "failed" \in printed /\ "termination_started" \notin printed

\* the terminate tool was called with an unknown id: the lookup failed and the
\* handler returned the not-found text
C3_Witness ==
    /\ prog = "mcp" /\ name = "oci_instance_terminate"
    /\ pc = "done"
    /\ arguments.instance_id # 0
    /\ ~Known(arguments.instance_id)
    /\ Len(calls) = 1 /\ calls[1].api = "get_instance" /\ calls[1].res = "NotFound"
    /\ ret.text = "not_found"

\* C4: list_instances never fails because of one instance's IP lookup: once the
\* provider has listed the instances the handler never raises, every listed
\* instance gets an entry, in order, whose public_ip is its own address when the
\* lookup found one and "N/A" otherwise, and total is the number of entries.
C4_ListingSurvivesLookups ==
    ( /\ prog = "mcp" /\ name = "oci_instance_list"
      /\ calls # <<>> /\ calls[1].res = "OK" ) =>
        /\ ret.text # "exec_error"
        /\ [k \in 1..(Len(result) + Len(listed)) |->
               IF k <= Len(result) THEN [id |-> result[k].id, state |-> result[k].state]
               ELSE listed[k - Len(result)]]
             = Listing(1, arguments.state)
        /\ \A k \in 1..Len(result) :
              result[k].public_ip =
                  IF \E c \in Issued("get_vnic") :
                        calls[c].instance_id = result[k].id /\ calls[c].res = "OK"
                  THEN Addr(result[k].id) ELSE NA
        /\ pc = "done" =>
              /\ ret.kind = "text" /\ ret.text = "listing"
              /\ listed = <<>>
              /\ ret.total = Len(result)
              /\ ret.total = Len(Listing(1, arguments.state))

\* a listing of two instances returned: the lookup of one failed and it is
\* listed with "N/A", the other is listed with its address
C4_Witness ==
    /\ prog = "mcp" /\ name = "oci_instance_list"
    /\ pc = "done"
    /\ ret.total = 2
    /\ \E c \in 1..Len(calls) :
          /\ calls[c].res = "ServiceError"
          /\ calls[c].instance_id = result[1].id
    /\ result[1].public_ip = NA
    /\ result[2].public_ip = Addr(result[2].id)

\* C5: when the image query with the shape filter returns nothing, every
\* launcher repeats it exactly once without the shape filter before it gives up:
\* a launcher that ended for want of an image has issued two list_images calls,
\* the second one without the filter, and no launcher issues a third.
C5_ImageQueryRetriedOnce ==
    Provisioning =>
        /\ Cardinality(Issued("list_images")) <= 2
        /\ ( /\ pc = "done"
             /\ "no_image" \in printed \/ ret.text = "no_image" ) =>
                /\ Cardinality(Issued("list_images")) = 2
                /\ \E k \in Issued("list_images") : calls[k].shape = ""

\* C6: when exactly one of the listed subnets has a name that contains "public"
\* in any casing, launch_staging_server picks that subnet wherever it stands in
\* the listing, and submits the launch with its id.
C6_UniqueMatchChosen ==
    ( /\ prog = "staging"
      /\ Cardinality({ i \in 1..Len(subnets) :
                         Contains(Lower(subnets[i].display_name), T_public) }) = 1 ) =>
        LET match == CHOOSE i \in 1..Len(subnets) :
                         Contains(Lower(subnets[i].display_name), T_public)
        IN /\ subnet = subnets[match].id
           /\ \A k \in Issued("launch_instance") : calls[k].subnet_id = subnets[match].id

\* the launch was submitted with the one matching subnet, which the provider
\* had listed second, and whose name matches only once lowered
C6_Witness ==
    /\ prog = "staging"
    /\ Len(subnets) = 2
    /\ ~Contains(Lower(subnets[1].display_name), T_public)
    /\ Contains(Lower(subnets[2].display_name), T_public)
    /\ ~Contains(subnets[2].display_name, T_public)
    /\ \E k \in Issued("launch_instance") : calls[k].subnet_id = subnets[2].id

\* the launch call of the running launcher was rejected by the provider as over quota
QuotaRejected ==
    /\ Provisioning
    /\ pc = "done"
    /\ calls # <<>>
    /\ calls[Len(calls)].api = "launch_instance"
    /\ calls[Len(calls)].res = "ServiceError"
    /\ ret.error.kind = "quota"

\* C7 as the spec has it: after a quota rejection of the launch the two launcher
\* scripts have ended without a poll or an IP lookup and have printed the quota
\* hint, whatever the status code and the casing of the rejection.
C7_QuotaHintOnEveryRejection ==
    ( QuotaRejected /\ prog \in {"staging", "ubuntu"} ) =>
        /\ Issued("get_instance") = {}
        /\ Issued("list_vnic_attachments") = {}
        /\ "hint_quota" \in printed

\* C7, amended: a rejected launch is the last provider call of every launcher (no
\* poll, no IP lookup), and after a quota rejection launch_ubuntu has printed the
\* quota hint when the status is not 404 and the message contains "quota" in any
\* casing, launch_staging_server when str(e) contains "QuotaExceeded" as written.
C7_QuotaHintWhenTextMatches ==
    /\ Provisioning =>
          \A k \in Issued("launch_instance") :
              calls[k].res # "OK" => k = Len(calls) /\ pc = "done"
    /\ ( QuotaRejected /\ prog = "ubuntu"
         /\ ret.error.status # 404
         /\ Contains(Lower(ret.error.message), T_quota) ) =>
            "launch_error" \in printed /\ "hint_quota" \in printed
    /\ ( QuotaRejected /\ prog = "staging"
         /\ Contains(StrOfError(ret.error), T_QuotaExceeded) ) =>
            "launch_error" \in printed /\ "hint_quota" \in printed

\* launch_ubuntu was refused for quota with a message that says "Quota", and has
\* printed the hint
C7_Witness ==
    /\ QuotaRejected /\ prog = "ubuntu"
    /\ ~Contains(ret.error.message, T_quota)
    /\ Contains(Lower(ret.error.message), T_quota)
    /\ "hint_quota" \in printed

\* C8: call_tool always returns one text item and never lets an exception out:
\* whatever the tool name, the arguments, the outcome of the initialisation and
\* the failures of the provider calls of the handler.
C8_CallToolReturnsText ==
    prog = "mcp" =>
        /\ ret.kind \in {"pending", "text"}
        /\ pc = "done" => ret.kind = "text" /\ ret.text # ""

\* a handler raised on the network client that was never created, and call_tool
\* returned the error as text
C8_Witness ==
    /\ prog = "mcp" /\ pc = "done"
    /\ compute_client /\ ~network_client
    /\ ret.kind = "text" /\ ret.text = "exec_error" /\ ret.exc = "AttributeError"

\* C9: when the wait budget of the launch tool is used up before the instance is
\* RUNNING the polling stops: no sleep follows, the tool reports the timeout as
\* text, no terminate_instance call is ever issued by a launcher, and the
\* instance is at the provider in the state last read.
C9_TimeoutLeavesInstance ==
    Provisioning =>
        /\ Issued("terminate_instance") = {}
        /\ prog = "mcp" =>
              /\ ( elapsed >= MaxWaitTicks /\ instance.lifecycle_state # "RUNNING" ) =>
                    pc = "done"
              /\ ( pc = "done" /\ elapsed >= MaxWaitTicks
                   /\ calls[Len(calls)].api = "get_instance"
                   /\ calls[Len(calls)].res \in Lifecycle \ {"RUNNING"} ) =>
                    /\ ret.kind = "text" /\ ret.exc = "MaximumWaitTimeExceeded"
                    /\ instances[instance.id] = instance.lifecycle_state
                    /\ Cardinality(Issued("get_instance")) = MaxWaitTicks + 1

\* the launch tool timed out on an instance that is still provisioning
C9_Witness ==
    /\ prog = "mcp" /\ name = "oci_instance_launch"
    /\ pc = "done"
    /\ ret.exc = "MaximumWaitTimeExceeded"
    /\ instances[instance.id] = "PROVISIONING"
    /\ elapsed = MaxWaitTicks

\* C10: when the instance is RUNNING and list_vnic_attachments returns nothing,
\* the launcher reports that the IP is unavailable, in a way that differs from a
\* launch failure and names the instance, and it issues no terminate_instance.
C10_IpUnavailableReported ==
    ( /\ Provisioning
      /\ pc = "done"
      /\ calls # <<>>
      /\ calls[Len(calls)].api = "list_vnic_attachments"
      /\ calls[Len(calls)].res = "EMPTY" ) =>
        /\ "no_ip" \in printed \/ ret.text = "ip_unavailable"
        /\ "launch_error" \notin printed /\ ret.text # "exec_error"
        /\ "instance_id" \in printed \/ ret.instance_id = instance.id
        /\ Issued("terminate_instance") = {}

\* C11: with a wait budget of 0 the launch tool fails with a timeout right after
\* the launch was accepted, and has not asked get_instance once.
C11_ZeroBudgetNoPoll ==
    ( /\ prog = "mcp" /\ name = "oci_instance_launch"
      /\ arguments.max_wait_seconds = "0"
      /\ \E k \in Issued("launch_instance") : calls[k].res = "OK" ) =>
        /\ Issued("get_instance") = {}
        /\ pc = "done" => ret.exc = "MaximumWaitTimeExceeded"

\* the instances the listing has produced or still holds, in order
ListedEntries ==
    [k \in 1..(Len(result) + Len(listed)) |->
        IF k <= Len(result) THEN [id |-> result[k].id, state |-> result[k].state]
        ELSE listed[k - Len(result)]]

\* C12: list_instances with a state filter lists exactly the instances whose
\* lifecycle_state equals the filter, character for character: each of them once,
\* and none in another state; with "RUNNING" only RUNNING instances.
C12_FilterIsExactMatch ==
    ( /\ prog = "mcp" /\ name = "oci_instance_list"
      /\ calls # <<>> /\ calls[1].res = "OK"
      /\ arguments.state \notin {"None", ""} ) =>
        /\ \A k \in 1..Len(ListedEntries) :
              /\ ListedEntries[k].state = arguments.state
              /\ instances[ListedEntries[k].id] = arguments.state
              /\ arguments.state = "RUNNING" => ListedEntries[k].state = "RUNNING"
        /\ \A i \in InstanceIds :
              instances[i] = arguments.state =>
                  Cardinality({ k \in 1..Len(ListedEntries) : ListedEntries[k].id = i }) = 1
        /\ arguments.state \notin Lifecycle => ListedEntries = <<>>

\* the listing for "RUNNING" has returned the one running instance and left out
\* an instance that is in another state
C12_Witness ==
    /\ prog = "mcp" /\ name = "oci_instance_list"
    /\ pc = "done"
    /\ arguments.state = "RUNNING"
    /\ ret.total = 1
    /\ result[1].state = "RUNNING"
    /\ \E i \in InstanceIds : instances[i] \in Lifecycle \ {"RUNNING"}

\* the keys of self.config that hold no value
Unset == { k \in ConfigKeys : config[k] \in {"None", ""} }

\* C13: credentials come from the environment or from the credential file. When
\* the environment is incomplete and the file gives nothing, initialisation
\* fails with a configuration error that names exactly the missing fields, no
\* provider client exists, and the tool call that triggered it ran no handler:
\* it made no provider call and returned the error.
C13_IncompleteCredentialsFail ==
    /\ compute_client => Unset = {}
    /\ (config # NoConfig /\ Unset # {}) =>
          /\ ~compute_client /\ ~network_client
          /\ calls = <<>>
          /\ pc \in {"idle", "ct_init", "done"}
          /\ pc = "done" =>
                /\ ret.kind = "text" /\ ret.text = "init_error"
                /\ ret.exc = "ValueError"
                /\ ret.missing = Unset

\* a listing was asked for with OCI_USER_OCID unset and no usable credential
\* file, and ended with the error that names user
C13_Witness ==
    /\ prog = "mcp" /\ name = "oci_instance_list" /\ pc = "done"
    /\ config = [EnvConfig([k \in ConfigKeys |-> "value"]) EXCEPT !.user = "None"]
    /\ ret.text = "init_error" /\ ret.missing = {"user"}
    /\ ~compute_client /\ calls = <<>>

\* call k was issued after an earlier call of `api` that got through
After(api, k) == \E j \in 1..(k - 1) : calls[j].api = api /\ calls[j].res = "OK"

\* the entry point reported `tag`: printed by a script, returned by call_tool
Reported(tag) == tag \in printed \/ ret.text = tag

\* C15: in every launcher launch_instance is called only once an image, a subnet
\* and the SSH public key are all resolved. When the image listing is empty, no
\* VCN or subnet is found, or the key file cannot be read, the operation ends
\* with no launch_instance and no other call that changes the provider.
C15_LaunchNeedsImageSubnetKey ==
    Provisioning =>
        /\ \A k \in 1..Len(calls) :
              calls[k].api = "launch_instance" =>
                  /\ After("list_images", k) /\ images # <<>>
                  /\ After("list_subnets", k)
                  /\ subnet # 0 /\ calls[k].subnet_id = subnet
                  /\ \E n \in 1..Len(subnets) : subnets[n].id = subnet
                  /\ prog # "staging" => After("list_vcns", k)
                  /\ After("open", k)
        /\ ( \/ Reported("no_image") \/ Reported("no_vcn")
             \/ Reported("no_subnet") \/ Reported("no_key")
             \/ \E j \in 1..Len(calls) : calls[j].api = "open" /\ calls[j].res # "OK" ) =>
              /\ pc = "done"
              /\ \A k \in 1..Len(calls) :
                    calls[k].api \notin {"launch_instance", "terminate_instance"}

\* the staging launcher has had its launch accepted, for the subnet it picked
\* out of two, after the image listing and the key file were read
C15_Witness ==
    /\ prog = "staging"
    /\ Len(subnets) = 2
    /\ \E k \in Issued("launch_instance") :
          /\ calls[k].res = "OK"
          /\ calls[k].subnet_id = subnet
          /\ After("open", k) /\ After("list_images", k)

\* the running entry point is one of the two listings
ListingInstances ==
    \/ prog = "list_all"
    \/ prog = "mcp" /\ name = "oci_instance_list"

\* provider call k did not get through
Failed(k) ==
    /\ calls[k].api # "open"
    /\ calls[k].res \in Failures \cup {"NotFound", "Conflict"}

\* the entry point is over and reported a failure
EndedInError ==
    /\ pc = "done"
    /\ \/ ret.kind = "unhandled"
       \/ ret.exc # ""
       \/ ret.text \in {"not_found", "exec_error"}
       \/ "failed" \in printed

\* calls j and k have the same api and the same parameters
SameCall(j, k) ==
    /\ calls[j].api = calls[k].api
    /\ calls[j].instance_id = calls[k].instance_id
    /\ calls[j].subnet_id = calls[k].subnet_id
    /\ calls[j].shape = calls[k].shape

\* C14 as claimed: in a provision, list or terminate operation a provider call
\* that fails is the last call of the operation, which ends as an error.
C14_FailedCallEndsOperation ==
    (Provisioning \/ ListingInstances \/ Terminating) =>
        \A k \in 1..Len(calls) : Failed(k) => k = Len(calls) /\ EndedInError

\* C14 as the code has it: no provider call is retried. A call that failed is never
\* issued again; in a provision or terminate operation it is the last call and
\* the operation ends as an error, so a failed get_instance ends the polling;
\* launch_instance and terminate_instance are issued at most once. In a listing
\* only a failed list_instances ends the operation: a failed address lookup of
\* one instance is passed over. An api is called twice only for polling, for
\* the lookups of different instances, and for the image listing without its
\* shape filter after the filtered one came back empty.
C14_NoCallRetried ==
    \A k \in 1..Len(calls) :
        /\ Failed(k) =>
              \/ k = Len(calls) /\ EndedInError
              \/ /\ ~Provisioning /\ ~Terminating
                 /\ ListingInstances => calls[k].api # "list_instances"
        /\ \A j \in 1..(k - 1) :
              calls[j].api = calls[k].api =>
                  /\ Failed(j) => ~SameCall(j, k)
                  /\ \/ /\ calls[k].api = "get_instance"
                        /\ Provisioning
                        /\ calls[j].res \in Lifecycle
                     \/ /\ calls[k].api \in {"list_vnic_attachments", "get_vnic"}
                        /\ prog = "mcp" /\ name = "oci_instance_list"
                        /\ calls[j].instance_id # calls[k].instance_id
                     \/ /\ calls[k].api = "list_images"
                        /\ calls[j].res = "OK"
                        /\ calls[j].shape # "" /\ calls[k].shape = ""

\* a launcher polled, was answered once, and its next get_instance failed:
\* the launcher is over and that failed call is its last
C14_Witness ==
    /\ Provisioning
    /\ pc = "done"
    /\ Cardinality(Issued("get_instance")) >= 2
    /\ calls[Len(calls)].api = "get_instance"
    /\ calls[Len(calls)].res \in Failures

\* call_tool is inside a handler
InHandler == prog = "mcp" /\ pc \notin {"idle", "ct_init", "ct_route", "done"}

\* C16: whatever tool calls came before, a handler runs only when the config,
\* the compute client and the network client are all initialised, and a call that
\* ended with an initialisation error leaves no compute client, so that the
\* next call initialises again.
C16_HandlerNeedsFullInit ==
    /\ InHandler =>
          /\ config # NoConfig
          /\ compute_client
          /\ network_client
    /\ (prog = "mcp" /\ pc = "done" /\ ret.text = "init_error") => ~compute_client

====
